---- MODULE Spec2Model ----
(***************************************************************************)
(* Chanina: worker-process lifecycle (redis lock, profile checkout,        *)
(* WorkerSession bring-up and tear-down) and Libretto task dispatch.       *)
(*                                                                         *)
(* Spec      several worker processes bringing their session up and down   *)
(*           against one filesystem and one redis lock store, in discrete  *)
(*           time (the lock's timeout and blocking_timeout are durations). *)
(* SpecTask  one worker process: registration of libretti, the hooks and   *)
(*           the dispatch of tasks.                                        *)
(* SpecApps  Spec with applications of different caller paths.             *)
(* SpecLive  Spec with processes that may die inside the with block, under *)
(*           weak fairness of time, expiry and the steps of the init hook. *)
(***************************************************************************)
EXTENDS Integers, Sequences, FiniteSets, TLC

\* ------------------------------------------------------------------ bounds
NumProcs == 3
MaxArgs == 2

\* ------------------------------------------------- constants of the program
\* self.redis.lock(self.redlock, timeout=30, blocking_timeout=45)
LockTimeout == 30
BlockingTimeout == 45
\* One step of model time, in seconds.
TimeUnit == LockTimeout \div 2

Procs == 1 .. NumProcs

\* ------------------------------------------------------------------- paths
\* A path is a sequence of components. A component records whether its text
\* holds the substring "tmp:" and the rest of its name. Absolute paths start
\* with Root; the empty sequence is the empty string "".
Comp(n) == [tmp |-> FALSE, name |-> n]
TmpComp(n) == [tmp |-> TRUE, name |-> n]
Root == Comp("/")
EmptyPath == << >>
Cwd == <<Root, Comp("app")>>
SrvDir == <<Root, Comp("srv")>>

\* Path(p).resolve() and os.path.abspath(p): relative paths are taken from
\* the working directory.
Resolve(p) == IF p # << >> /\ p[1] = Root THEN p ELSE Cwd \o p

Parent(p) == SubSeq(p, 1, Len(p) - 1)

IsPrefix(p, q) == Len(p) <= Len(q) /\ SubSeq(q, 1, Len(p)) = p

\* "tmp:" in str(p)
HasTmpMarker(p) == \E i \in 1 .. Len(p) : p[i].tmp

\* str(uuid.uuid4()) in process p: a value no other call returns. Each
\* process calls it at most once, and the value is named after the process.
Uuid4(p) == "u" \o ToString(p)

\* dest = "tmp:" + str(uuid.uuid4())   (relative to the working directory)
TempDest(u) == <<TmpComp(u)>>

\* -------------------------------------------------------------- file trees
\* A file name is a stem and an extension ("lock" has no extension,
\* "parent.lock" has extension "lock"). A tree is the set of the relative
\* paths (sequences of names) of its files.
Name(s, e) == [stem |-> s, ext |-> e]

\* Mutant of Ignored: only the name "lock" is ignored, "*.lock" is not.
IgnoredLockOnly(n) == n.stem = "lock" /\ n.ext = ""

\* shutil.ignore_patterns("*.lock", "lock"): fnmatch of the whole name.
Ignored(n) == n.ext = "lock" \/ (n.stem = "lock" /\ n.ext = "")

TopNames(tree) == {q[1] : q \in tree}
SubTree(tree, n) == {Tail(q) : q \in {r \in tree : r[1] = n /\ Len(r) > 1}}
IsFileIn(tree, n) == <<n>> \in tree

\* shutil.copytree(src, dst, ignore=...): at every level the ignored names are
\* skipped (an ignored directory is not descended into), files are copied and
\* directories are copied recursively.
RECURSIVE CopyTree(_)
CopyTree(tree) ==
    LET kept == {n \in TopNames(tree) : ~Ignored(n)}
    IN  {<<n>> : n \in {m \in kept : IsFileIn(tree, m)}}
        \cup UNION {{<<n>> \o q : q \in CopyTree(SubTree(tree, n))} : n \in kept}

\* A directory holds a tree of files; readable is FALSE when one of them
\* cannot be read, which makes copytree end in shutil.Error.
DirNode(tree) == [kind |-> "dir", tree |-> tree, readable |-> TRUE]
UnreadableDir(tree) == [kind |-> "dir", tree |-> tree, readable |-> FALSE]
FileNode == [kind |-> "file", tree |-> {}, readable |-> TRUE]

Exists(f, p) == p \in DOMAIN f
IsDir(f, p) == Exists(f, p) /\ f[p].kind = "dir"

\* The filesystem f with node n at path p.
Put(f, p, n) == [q \in DOMAIN f \cup {p} |-> IF q = p THEN n ELSE f[q]]

\* shutil.rmtree(p, ignore_errors=True)
RmTree(f, p) == [q \in {r \in DOMAIN f : ~IsPrefix(p, r)} |-> f[q]]

\* ------------------------------------------------- profile checkout/release
\* remove_profile(profile_path): the filesystem afterwards and the exception
\* raised ("" when none).
RemoveProfile(f, profile_path) ==
    LET p == Resolve(profile_path)
    IN  IF ~IsDir(f, p) THEN [fs |-> f, err |-> "ValueError"]
        ELSE IF ~HasTmpMarker(p) THEN [fs |-> f, err |-> ""]
        ELSE [fs |-> RmTree(f, p), err |-> ""]

\* os.mkdir(src): the parent must be a directory.
MkDir(f, src) ==
    IF IsDir(f, Parent(src))
    THEN [fs |-> Put(f, src, DirNode({})), err |-> ""]
    ELSE [fs |-> f, err |-> "FileNotFoundError"]

\* init_profile(profile_path), with the uuid drawn: the filesystem
\* afterwards, the returned path and the exception raised ("" when none).
InitProfile(f, profile_path, u) ==
    LET src == Resolve(profile_path)
        dest == TempDest(u)
    IN  IF ~Exists(f, src)
        THEN LET m == MkDir(f, src)
             IN  [fs |-> m.fs, err |-> m.err,
                  ret |-> IF m.err = "" THEN src ELSE EmptyPath]
        ELSE IF ~IsDir(f, src)
        THEN [fs |-> f, err |-> "ValueError", ret |-> EmptyPath]
        ELSE IF Exists(f, Resolve(dest))
        THEN [fs |-> f, err |-> "FileExistsError", ret |-> EmptyPath]
        ELSE IF f[src].readable
        THEN [fs |-> Put(f, Resolve(dest), DirNode(CopyTree(f[src].tree))),
              err |-> "", ret |-> dest]
        ELSE \* shutil.Error: dest exists, partly filled; it is removed and ""
             \* is returned.
             LET r == RemoveProfile(Put(f, Resolve(dest), DirNode({})), dest)
             IN  [fs |-> r.fs, err |-> r.err, ret |-> EmptyPath]

\* ----------------------------------------------------------- WorkerSession
\* Mutant of InitContext: a browser name that is not known is launched like
\* chrome.
InitContextAnyBrowser(name, profile) ==
    IF name = "firefox" /\ profile # EmptyPath
    THEN [ctx |-> "persistent", err |-> ""]
    ELSE [ctx |-> "ephemeral", err |-> ""]

\* WorkerSession._init_context: the kind of browser context opened, or the
\* exception raised.
InitContext(name, profile) ==
    IF name = "firefox"
    THEN IF profile # EmptyPath
         THEN [ctx |-> "persistent", err |-> ""]
         ELSE [ctx |-> "ephemeral", err |-> ""]
    ELSE IF name = "chrome"
    THEN [ctx |-> "ephemeral", err |-> ""]
    ELSE [ctx |-> "none", err |-> "ValueError"]

\* ------------------------------------------------------------------- state
VARIABLES
    \* configuration of the ChaninaApplication objects (fixed at construction)
    user_profile_path,     \* self._user_profile_path
    browser_name,          \* self._browser_name
    playwright_enabled,    \* self._playwright_enabled
    caller_path,           \* per process: self._caller_path
    \* shared by the processes
    fs,                    \* the filesystem: path -> node
    lockHolder,            \* redis: lock key -> the processes holding it
    lockAge,               \* redis: lock key -> seconds since it was set
    \* per process
    pc,                    \* where the process is in its lifecycle
    waited,                \* seconds spent in Lock.acquire
    in_use_profile_path,   \* self._in_use_profile_path
    worker_session,        \* self._worker_session: "None" or "session"
    pw,                    \* the playwright driver: none, running, stopped
    browser_context,       \* none, persistent, ephemeral, closed
    initError,             \* what _init_worker raised ("" when nothing)
    shutdownError,         \* what _shutdown_worker raised
    teardown,              \* the steps _shutdown_worker performed, in order
    \* task side (the application object of one worker)
    libretti,              \* self._libretti: title -> Libretto
    registered,            \* the latest call of the libretto decorator: <<title, func>>
    running                \* the task the worker process is running

cfgVars == <<user_profile_path, browser_name, playwright_enabled, caller_path>>
lockVars == <<lockHolder, lockAge>>
sessVars == <<worker_session, pw, browser_context>>
hookVars == <<initError, shutdownError, teardown>>
taskVars == <<libretti, registered, running>>
vars == <<cfgVars, fs, lockVars, pc, waited, in_use_profile_path,
          sessVars, hookVars, taskVars>>

\* ----------------------------------------------------------- initial states
BrowserNames == {"firefox", "chrome", "safari"}
CallerDirs == {"appA", "appB"}

ProfileAbs == <<Root, Comp("srv"), Comp("default")>>
ProfileRel == <<Comp("profile")>>
ProfileMarked == <<Root, Comp("srv"), TmpComp("old")>>

\* A profile tree: plain files, lock markers at both levels, a directory
\* that is itself a lock marker, and a name that merely starts with "lock".
SourceTrees ==
    { { <<Name("a", "txt")>>, <<Name("lock", "")>>,
        <<Name("parent", "lock")>>, <<Name("lock", "txt")>>,
        <<Name("sub", ""), Name("lock", "")>>,
        <<Name("sub", ""), Name("b", "txt")>>,
        <<Name("cache", "lock"), Name("c", "txt")>> } }

BaseFs == (<<Root>> :> DirNode({})) @@ (Cwd :> DirNode({}))
WithSrv == BaseFs @@ (SrvDir :> DirNode({}))

\* The configured profile path and the filesystem the workers start on: no
\* profile, an existing profile directory (readable or not), a path that does
\* not exist (relative, without its parent, holding "tmp:"), a path that is a
\* file.
Scenarios ==
    { [profile |-> EmptyPath, fs |-> BaseFs] }
    \cup { [profile |-> ProfileAbs, fs |-> WithSrv @@ (ProfileAbs :> DirNode(t))]
           : t \in SourceTrees }
    \cup { [profile |-> ProfileAbs,
            fs |-> WithSrv @@ (ProfileAbs :> UnreadableDir(t))]
           : t \in SourceTrees }
    \cup { [profile |-> ProfileRel, fs |-> BaseFs],
           [profile |-> ProfileAbs, fs |-> BaseFs],
           [profile |-> ProfileMarked, fs |-> WithSrv],
           [profile |-> ProfileAbs, fs |-> WithSrv @@ (ProfileAbs :> FileNode)] }

\* ChaninaApplication.__init__ and build_default_libretti: the registry holds
\* the two built-in libretti.
Libretto(title, func) == [title |-> title, func |-> func]
DefaultLibretti ==
    ("chanina.list_libretti" :> Libretto("chanina.list_libretti", "chanina_list_libretti"))
    @@ ("chanina.new_page" :> Libretto("chanina.new_page", "chanina_new_page"))

\* The worker process is running no task.
NoCall == [proc |-> 0, title |-> "", func |-> "", args |-> << >>, kwargs |-> {},
           enabled |-> FALSE, session |-> "None", context |-> "none",
           calls |-> << >>, outcome |-> ""]

InitProcs ==
    /\ pc = [p \in Procs |-> "idle"]
    /\ waited = [p \in Procs |-> 0]
    /\ in_use_profile_path = [p \in Procs |-> EmptyPath]
    /\ worker_session = [p \in Procs |-> "None"]
    /\ pw = [p \in Procs |-> "none"]
    /\ browser_context = [p \in Procs |-> "none"]
    /\ initError = [p \in Procs |-> ""]
    /\ shutdownError = [p \in Procs |-> ""]
    /\ teardown = [p \in Procs |-> << >>]
    /\ lockHolder = [k \in CallerDirs |-> {}]
    /\ lockAge = [k \in CallerDirs |-> 0]
    /\ libretti = DefaultLibretti
    /\ registered = << >>
    /\ running = NoCall

\* Every scenario runs with firefox; every browser name runs without a
\* profile and with an existing profile directory.
BrowsersOf(sc) ==
    IF sc.profile = EmptyPath \/ (IsDir(sc.fs, Resolve(sc.profile))
                                   /\ sc.fs[Resolve(sc.profile)].readable)
    THEN BrowserNames ELSE {"firefox"}

Init ==
    /\ InitProcs
    /\ \E sc \in Scenarios :
          /\ user_profile_path = sc.profile
          /\ fs = sc.fs
          /\ browser_name \in BrowsersOf(sc)
    /\ playwright_enabled = TRUE
    /\ caller_path = [p \in Procs |-> "appA"]

\* ------------------------------------------------------------ the redis lock
\* self.redlock = f"lock:chanina:{caller_path}"
Redlock(p) == caller_path[p]

Owned(p) == p \in lockHolder[Redlock(p)]

\* Lock.release() on leaving the with block, while exc propagates: a lock
\* that expired is no longer owned and release raises LockNotOwnedError.
ExitError(p, exc) == IF Owned(p) THEN exc ELSE "LockNotOwnedError"

\* Mutant of ExitLock: leaving the with block does not release the lock.
ExitLockKept(p) == UNCHANGED lockVars

ExitLock(p) ==
    /\ lockHolder' = IF Owned(p) THEN [lockHolder EXCEPT ![Redlock(p)] = {}]
                                 ELSE lockHolder
    /\ lockAge' = IF Owned(p) THEN [lockAge EXCEPT ![Redlock(p)] = 0] ELSE lockAge

\* ------------------------------------------------- _init_worker, step by step
\* Mutant of StartInit: the hook is connected whatever playwright_enabled is.
StartInitAlways(p) ==
    /\ pc[p] = "idle"
    /\ \A q \in Procs : q < p => pc[q] # "idle"
    /\ pc' = [pc EXCEPT ![p] = "waiting"]
    /\ UNCHANGED <<cfgVars, fs, lockVars, waited, in_use_profile_path,
                   sessVars, hookVars, taskVars>>

\* worker_process_init fires once in each worker process; the hook is
\* connected only when playwright is enabled. The processes are numbered in
\* the order in which their hooks start.
StartInit(p) ==
    /\ playwright_enabled
    /\ pc[p] = "idle"
    /\ \A q \in Procs : q < p => pc[q] # "idle"
    /\ pc' = [pc EXCEPT ![p] = "waiting"]
    /\ UNCHANGED <<cfgVars, fs, lockVars, waited, in_use_profile_path,
                   sessVars, hookVars, taskVars>>

\* Lock.acquire succeeds: the key is not set.
Acquire(p) ==
    /\ pc[p] = "waiting"
    /\ lockHolder[Redlock(p)] = {}
    /\ lockHolder' = [lockHolder EXCEPT ![Redlock(p)] = {p}]
    /\ lockAge' = [lockAge EXCEPT ![Redlock(p)] = 0]
    /\ pc' = [pc EXCEPT ![p] = "locked"]
    /\ waited' = [waited EXCEPT ![p] = 0]
    /\ UNCHANGED <<cfgVars, fs, in_use_profile_path, sessVars, hookVars,
                   taskVars>>

\* Mutant of AcquireTimeout: the driver is started before the lock is waited
\* for, and is left running when the wait fails.
AcquireTimeoutDriverLeft(p) ==
    /\ pc[p] = "waiting"
    /\ lockHolder[Redlock(p)] # {}
    /\ waited[p] >= BlockingTimeout
    /\ pc' = [pc EXCEPT ![p] = "up"]
    /\ waited' = [waited EXCEPT ![p] = 0]
    /\ initError' = [initError EXCEPT ![p] = "LockError"]
    /\ pw' = [pw EXCEPT ![p] = "running"]
    /\ UNCHANGED <<cfgVars, fs, lockVars, in_use_profile_path, worker_session,
                   browser_context, shutdownError, teardown, taskVars>>

\* Lock.acquire gives up after blocking_timeout: entering the with block
\* raises LockError and nothing of its body runs.
AcquireTimeout(p) ==
    /\ pc[p] = "waiting"
    /\ lockHolder[Redlock(p)] # {}
    /\ waited[p] >= BlockingTimeout
    /\ pc' = [pc EXCEPT ![p] = "up"]
    /\ waited' = [waited EXCEPT ![p] = 0]
    /\ initError' = [initError EXCEPT ![p] = "LockError"]
    /\ UNCHANGED <<cfgVars, fs, lockVars, in_use_profile_path, sessVars,
                   shutdownError, teardown, taskVars>>

\* if self._user_profile_path: self._in_use_profile_path = init_profile(...)
Checkout(p) ==
    /\ pc[p] = "locked"
    /\ IF user_profile_path = EmptyPath
       THEN /\ pc' = [pc EXCEPT ![p] = "checked"]
            /\ UNCHANGED <<fs, lockVars, in_use_profile_path, initError>>
       ELSE LET r == InitProfile(fs, user_profile_path, Uuid4(p))
              IN  /\ fs' = r.fs
                  /\ IF r.err = ""
                     THEN /\ in_use_profile_path' =
                                 [in_use_profile_path EXCEPT ![p] = r.ret]
                          /\ pc' = [pc EXCEPT ![p] = "checked"]
                          /\ UNCHANGED <<lockVars, initError>>
                     ELSE /\ pc' = [pc EXCEPT ![p] = "up"]
                          /\ initError' =
                                 [initError EXCEPT ![p] = ExitError(p, r.err)]
                          /\ ExitLock(p)
                          /\ UNCHANGED in_use_profile_path
    /\ UNCHANGED <<cfgVars, waited, sessVars, shutdownError, teardown, taskVars>>

\* Mutant of ConstructSession: when _init_context raises, the construction
\* is tried again, inside the with block, until it succeeds.
ConstructSessionRetries(p) ==
    /\ pc[p] = "checked"
    /\ pw' = [pw EXCEPT ![p] = "running"]
    /\ LET r == InitContext(browser_name, in_use_profile_path[p])
       IN  IF r.err = ""
           THEN /\ browser_context' = [browser_context EXCEPT ![p] = r.ctx]
                /\ worker_session' = [worker_session EXCEPT ![p] = "session"]
                /\ initError' = [initError EXCEPT ![p] = ExitError(p, "")]
                /\ ExitLock(p)
                /\ pc' = [pc EXCEPT ![p] = "up"]
           ELSE UNCHANGED <<browser_context, worker_session, initError,
                            lockVars, pc>>
    /\ UNCHANGED <<cfgVars, fs, waited, in_use_profile_path,
                   shutdownError, teardown, taskVars>>

\* self._worker_session = WorkerSession(...): the driver is started, then
\* _init_context opens the browser context; the assignment and the end of the
\* with block follow. When _init_context raises, the driver stays started and
\* nothing is assigned.
ConstructSession(p) ==
    /\ pc[p] = "checked"
    /\ pw' = [pw EXCEPT ![p] = "running"]
    /\ LET r == InitContext(browser_name, in_use_profile_path[p])
       IN  /\ IF r.err = ""
              THEN /\ browser_context' = [browser_context EXCEPT ![p] = r.ctx]
                   /\ worker_session' = [worker_session EXCEPT ![p] = "session"]
              ELSE UNCHANGED <<browser_context, worker_session>>
           /\ initError' = [initError EXCEPT ![p] = ExitError(p, r.err)]
    /\ ExitLock(p)
    /\ pc' = [pc EXCEPT ![p] = "up"]
    /\ UNCHANGED <<cfgVars, fs, waited, in_use_profile_path,
                   shutdownError, teardown, taskVars>>

\* ------------------------------------------------------------ _shutdown_worker
\* WorkerSession.close(): the context is closed, then the driver is stopped.
CloseSteps == <<"browser_context.close", "playwright.stop">>

Shutdown(p) ==
    /\ pc[p] = "up"
    /\ running = NoCall
    /\ pc' = [pc EXCEPT ![p] = "down"]
    /\ LET path == in_use_profile_path[p]
           rm == IF path # EmptyPath THEN RemoveProfile(fs, path)
                                     ELSE [fs |-> fs, err |-> ""]
           log1 == IF path # EmptyPath THEN <<"remove_profile">> ELSE << >>
       IN  /\ fs' = rm.fs
           /\ shutdownError' = [shutdownError EXCEPT ![p] = rm.err]
           /\ IF rm.err = "" /\ worker_session[p] # "None"
              THEN /\ browser_context' = [browser_context EXCEPT ![p] = "closed"]
                   /\ pw' = [pw EXCEPT ![p] = "stopped"]
                   /\ worker_session' = [worker_session EXCEPT ![p] = "None"]
                   /\ teardown' = [teardown EXCEPT
                                      ![p] = log1 \o CloseSteps \o <<"clear">>]
              ELSE /\ teardown' = [teardown EXCEPT ![p] = log1]
                   /\ UNCHANGED sessVars
    /\ UNCHANGED <<cfgVars, lockVars, waited, in_use_profile_path,
                   initError, taskVars>>

\* ---------------------------------------------------------------- environment
\* The directory a running worker has leased is removed by something other
\* than its hooks (a cleaner of temporary files, an operator, a task):
\* remove_profile then finds that the path is not a directory.
LeaseRemoved(p) ==
    /\ pc[p] = "up"
    /\ in_use_profile_path[p] # EmptyPath
    /\ IsDir(fs, Resolve(in_use_profile_path[p]))
    /\ fs' = RmTree(fs, Resolve(in_use_profile_path[p]))
    /\ UNCHANGED <<cfgVars, lockVars, pc, waited, in_use_profile_path,
                   sessVars, hookVars, taskVars>>

\* ----------------------------------------------------------------------- time
\* The key's expiry (timeout=30): redis drops the key.
Expire(k) ==
    /\ lockHolder[k] # {}
    /\ lockAge[k] >= LockTimeout
    /\ lockHolder' = [lockHolder EXCEPT ![k] = {}]
    /\ lockAge' = [lockAge EXCEPT ![k] = 0]
    /\ UNCHANGED <<cfgVars, fs, pc, waited, in_use_profile_path, sessVars,
                   hookVars, taskVars>>

\* TimeUnit seconds pass. Time does not pass over a due expiry, over a waiter
\* that polls a free key, nor over a waiter whose blocking_timeout is up.
Tick ==
    /\ \E k \in CallerDirs : lockHolder[k] # {}
    /\ \A k \in CallerDirs : lockHolder[k] # {} => lockAge[k] < LockTimeout
    /\ \A p \in Procs : pc[p] = "waiting" =>
           /\ lockHolder[Redlock(p)] # {}
           /\ waited[p] < BlockingTimeout
    /\ lockAge' = [k \in CallerDirs |->
                     IF lockHolder[k] # {} THEN lockAge[k] + TimeUnit ELSE lockAge[k]]
    /\ waited' = [p \in Procs |->
                    IF pc[p] = "waiting" THEN waited[p] + TimeUnit ELSE waited[p]]
    /\ UNCHANGED <<cfgVars, fs, lockHolder, pc, in_use_profile_path,
                   sessVars, hookVars, taskVars>>

Next ==
    \/ \E p \in Procs : StartInit(p)
    \/ \E p \in Procs : Acquire(p)
    \/ \E p \in Procs : AcquireTimeout(p)
    \/ \E p \in Procs : Checkout(p)
    \/ \E p \in Procs : ConstructSession(p)
    \/ \E p \in Procs : Shutdown(p)
    \/ \E p \in Procs : LeaseRemoved(p)
    \/ \E k \in CallerDirs : Expire(k)
    \/ Tick

Spec == Init /\ [][Next]_vars

\* --------------------------------------------------------- libretti and tasks
\* Positional values a task is sent with: 0, "" and "a". A mapping (the
\* keyword arguments) is the set of its key/value pairs.
ArgValues == { [k |-> "int", v |-> "0"], [k |-> "str", v |-> ""],
               [k |-> "str", v |-> "a"] }
KwargsChoices == { {}, {<<"url", "x">>} }
ArgLists == UNION {[1 .. n -> ArgValues] : n \in 0 .. MaxArgs}

\* Python's truth value of a positional value.
Truthy(a) == IF a.k = "int" THEN a.v # "0" ELSE a.v # ""

\* What a wrapped function receives: a positional value, the worker session
\* (or None), or the mapping of keyword arguments.
Pos(a) == [tag |-> "arg", x |-> a]
Sess(s) == [tag |-> "session", x |-> s]
Conf(m) == [tag |-> "config", x |-> m]

\* for arg in args: if arg: parsed_args.append(arg)
RECURSIVE ParsedArgs(_)
ParsedArgs(args) ==
    IF args = << >> THEN << >>
    ELSE IF Truthy(Head(args)) THEN <<Head(args)>> \o ParsedArgs(Tail(args))
    ELSE ParsedArgs(Tail(args))

PosList(args) == [i \in 1 .. Len(args) |-> Pos(args[i])]

\* Mutant of Task: the session is passed after the keyword mapping.
TaskSessionLast(args, kwargs, enabled, session) ==
    LET parsed == ParsedArgs(args)
    IN  IF enabled
        THEN << PosList(parsed) \o <<Conf(kwargs), Sess(session)>> >>
        ELSE << PosList(parsed) \o <<Conf(kwargs)>> >>

\* Libretto._register_as_task._task(*args, **kwargs): the invocations of
\* self.func it makes, each the list of what is passed.
Task(args, kwargs, enabled, session) ==
    LET parsed == ParsedArgs(args)
    IN  IF enabled
        THEN IF parsed # << >>
             THEN << PosList(parsed) \o <<Sess(session), Conf(kwargs)>> >>
             ELSE << <<Sess(session), Conf(kwargs)>> >>
        ELSE IF parsed # << >>
             THEN << PosList(parsed) \o <<Conf(kwargs)>> >>
             ELSE << <<Conf(kwargs)>> >>

\* The built-in functions look for the session among the positional values
\* they receive (isinstance(a, WorkerSession)); the last one found is used.
RECURSIVE FindSession(_, _)
FindSession(argv, found) ==
    IF argv = << >> THEN found
    ELSE FindSession(Tail(argv),
                     IF Head(argv).tag = "session" /\ Head(argv).x # "None"
                     THEN Head(argv).x ELSE found)

\* WorkerSession.new_page(): the browser context opens a page, or raises when
\* it is closed or the driver is stopped.
NewPage(context, driver) ==
    IF context \in {"persistent", "ephemeral"} /\ driver = "running"
    THEN "page" ELSE "Error"

\* chanina_new_page(*args, **kwargs): no session found: returns; otherwise a
\* page is opened, and an exception of new_page is logged and dropped.
ChaninaNewPage(argv, context, driver) ==
    IF FindSession(argv, "None") = "None" THEN "returned without a session"
    ELSE IF NewPage(context, driver) = "page" THEN "page opened"
    ELSE "error logged"

\* chanina_list_libretti(*args, **kwargs)
ChaninaListLibretti(argv) ==
    IF FindSession(argv, "None") = "None" THEN "returned without a session"
    ELSE "libretti logged"

\* The outcome of self.func(*argv).
Invoke(func, argv, context, driver) ==
    IF func = "chanina_new_page" THEN ChaninaNewPage(argv, context, driver)
    ELSE IF func = "chanina_list_libretti" THEN ChaninaListLibretti(argv)
    ELSE "returned"

UserFuncs == {"f", "g"}
UserTitles == {"job", "chanina.new_page"}

\* Mutant of Register: an identifier that is taken keeps its libretto.
RegisterKeepFirst(title, func) ==
    /\ running = NoCall
    /\ libretti' = libretti @@ (title :> Libretto(title, func))
    /\ registered' = <<title, func>>
    /\ UNCHANGED <<cfgVars, fs, lockVars, pc, waited, in_use_profile_path,
                   sessVars, hookVars, running>>

\* @app.libretto(title) applied to func: self.libretti[title] = libretto
Register(title, func) ==
    /\ running = NoCall
    /\ libretti' = (title :> Libretto(title, func)) @@ libretti
    /\ registered' = <<title, func>>
    /\ UNCHANGED <<cfgVars, fs, lockVars, pc, waited, in_use_profile_path,
                   sessVars, hookVars, running>>

\* A task of libretto `title` runs in worker process p. The pool runs tasks
\* in a process one at a time, after its worker_process_init handlers have
\* returned or raised, and before worker_process_shutdown.
Dispatch(p, title, args, kwargs) ==
    /\ title \in DOMAIN libretti
    /\ running = NoCall
    /\ IF playwright_enabled THEN pc[p] = "up" ELSE pc[p] = "idle"
    /\ LET calls == Task(args, kwargs, playwright_enabled, worker_session[p])
           func == libretti[title].func
       IN  running' =
             [proc |-> p, title |-> title, func |-> func, args |-> args, kwargs |-> kwargs,
              enabled |-> playwright_enabled,
              session |-> worker_session[p], context |-> browser_context[p],
              calls |-> calls,
              outcome |-> Invoke(func, calls[1], browser_context[p], pw[p])]
    /\ UNCHANGED <<cfgVars, fs, lockVars, pc, waited, in_use_profile_path,
                   sessVars, hookVars, libretti, registered>>

\* The task returns.
Return ==
    /\ running # NoCall
    /\ running' = NoCall
    /\ UNCHANGED <<cfgVars, fs, lockVars, pc, waited, in_use_profile_path,
                   sessVars, hookVars, libretti, registered>>

\* One worker process and its application object.
TaskProc == CHOOSE p \in Procs : \A q \in Procs : p <= q

TaskScenarios ==
    { sc \in Scenarios :
        \/ sc.profile = EmptyPath
        \/ sc.profile = ProfileAbs /\ IsDir(sc.fs, SrvDir) }

InitTask ==
    /\ InitProcs
    /\ \E sc \in TaskScenarios :
          /\ user_profile_path = sc.profile
          /\ fs = sc.fs
          /\ browser_name \in BrowsersOf(sc)
    /\ playwright_enabled \in BOOLEAN
    /\ caller_path = [p \in Procs |-> "appA"]

NextTask ==
    \/ \E title \in UserTitles, func \in UserFuncs : Register(title, func)
    \/ StartInit(TaskProc)
    \/ Acquire(TaskProc)
    \/ Checkout(TaskProc)
    \/ ConstructSession(TaskProc)
    \/ Shutdown(TaskProc)
    \/ \E k \in CallerDirs : Expire(k)
    \/ Tick
    \/ \E title \in DOMAIN libretti, args \in ArgLists, kwargs \in KwargsChoices :
          Dispatch(TaskProc, title, args, kwargs)
    \/ Return

SpecTask == InitTask /\ [][NextTask]_vars

\* Applications defined in files of different directories (their caller_path
\* differs) and configured with one and the same profile directory; each
\* worker process belongs to one of them.
AppsScenarios ==
    { sc \in Scenarios : IsDir(sc.fs, Resolve(sc.profile))
                          /\ sc.profile # EmptyPath
                          /\ sc.fs[Resolve(sc.profile)].readable }

InitApps ==
    /\ InitProcs
    /\ \E sc \in AppsScenarios :
          /\ user_profile_path = sc.profile
          /\ fs = sc.fs
    /\ browser_name = "firefox"
    /\ playwright_enabled = TRUE
    /\ caller_path \in {f \in [Procs -> CallerDirs] :
                           f[CHOOSE p \in Procs : \A q \in Procs : p <= q] = "appA"}

SpecApps == InitApps /\ [][Next]_vars

\* ------------------------------------------------------------------ progress
\* A worker process dies inside the with block of _init_worker: nothing
\* releases its lock, which stays set until the key expires.
Crash(p) ==
    /\ pc[p] \in {"locked", "checked"}
    /\ pc' = [pc EXCEPT ![p] = "crashed"]
    /\ UNCHANGED <<cfgVars, fs, lockVars, waited, in_use_profile_path,
                   sessVars, hookVars, taskVars>>

\* No profile with a browser name that is supported and one that is not; an
\* existing profile directory with firefox.
LiveScenarios ==
    { sc \in Scenarios :
        \/ sc.profile = EmptyPath
        \/ IsDir(sc.fs, Resolve(sc.profile)) /\ sc.fs[Resolve(sc.profile)].readable }

InitLive ==
    /\ InitProcs
    /\ \E sc \in LiveScenarios :
          /\ user_profile_path = sc.profile
          /\ fs = sc.fs
          /\ browser_name \in IF sc.profile = EmptyPath
                               THEN {"firefox", "safari"} ELSE {"firefox"}
    /\ playwright_enabled = TRUE
    /\ caller_path = [p \in Procs |-> "appA"]

NextLive ==
    \/ \E p \in Procs : StartInit(p)
    \/ \E p \in Procs : Acquire(p)
    \/ \E p \in Procs : AcquireTimeout(p)
    \/ \E p \in Procs : Checkout(p)
    \/ \E p \in Procs : ConstructSession(p)
    \/ \E p \in Procs : Crash(p)
    \/ \E p \in Procs : Shutdown(p)
    \/ \E k \in CallerDirs : Expire(k)
    \/ Tick

\* Time passes and redis expires keys; a process that is not dead goes on
\* with its init hook. Nothing obliges a process to stop (Shutdown) or to
\* die (Crash).
Fairness ==
    /\ WF_vars(Tick)
    /\ \A k \in CallerDirs : WF_vars(Expire(k))
    /\ \A p \in Procs :
          /\ WF_vars(Acquire(p))
          /\ WF_vars(AcquireTimeout(p))
          /\ WF_vars(Checkout(p))
          /\ WF_vars(ConstructSession(p))

SpecLive == InitLive /\ [][NextLive]_vars /\ Fairness

\* ======================================================================
\* Properties
\* ======================================================================

\* The process is inside the with block of _init_worker: profile checkout
\* and the construction of the WorkerSession.
InWindow(p) == pc[p] \in {"locked", "checked"}

\* The session of the process is live: the driver runs and the context is
\* open.
Live(p) ==
    /\ worker_session[p] = "session"
    /\ pw[p] = "running"
    /\ browser_context[p] \in {"persistent", "ephemeral"}

\* C1: at no time are two worker processes inside the checkout window
\* (profile checkout and session construction) together, however long the
\* window lasts compared with the lock's timeout.
C1_CheckoutWindowExclusive ==
    \A p, q \in Procs : p # q => ~(InWindow(p) /\ InWindow(q))

\* The session object a running task was handed was live when it was handed.
HandedLive(call) ==
    /\ call.session = "session"
    /\ call.context \in {"persistent", "ephemeral"}

\* C2: with playwright enabled, a task never invokes the wrapped function
\* with a session that is None, never initialised or closed.
C2_NoDeadSessionPassed ==
    (running # NoCall /\ running.enabled) =>
        \A i \in 1 .. Len(running.calls) :
            \A j \in 1 .. Len(running.calls[i]) :
                running.calls[i][j].tag = "session" =>
                    /\ running.calls[i][j].x # "None"
                    /\ HandedLive(running)

\* The positional values that are kept: the truthy ones, in order.
Kept(args) == SelectSeq(args, Truthy)

C4_DisabledNoSession ==
    ~playwright_enabled =>
        /\ \A p \in Procs :
              /\ pc[p] = "idle"
              /\ worker_session[p] = "None"
              /\ pw[p] = "none"
              /\ browser_context[p] = "none"
        /\ running # NoCall =>
              /\ Len(running.calls) = 1
              /\ LET argv == running.calls[1]
                     n == Len(Kept(running.args))
                 IN  /\ Len(argv) = n + 1
                     /\ \A i \in 1 .. n : argv[i] = Pos(Kept(running.args)[i])
                     /\ argv[n + 1] = Conf(running.kwargs)
                     /\ \A i \in 1 .. Len(argv) : argv[i].tag # "session"

C4_Witness ==
    /\ ~playwright_enabled
    /\ running # NoCall
    /\ Len(running.args) = MaxArgs
    /\ \E i \in 1 .. MaxArgs : ~Truthy(running.args[i])
    /\ \E i \in 1 .. MaxArgs : Truthy(running.args[i])

\* The resolved source profile path.
Source == Resolve(user_profile_path)

\* Process p's call of init_profile returns in this step.
CheckoutReturns(p) == pc[p] = "locked" /\ pc'[p] = "checked"

\* Process p's call of init_profile ends in this step, by return or raise.
CheckoutEnds(p) == pc[p] = "locked" /\ pc'[p] # "locked"

\* No name on the relative path is a lock marker ("lock" or "*.lock").
NoLockMarker(q) ==
    \A i \in 1 .. Len(q) :
        ~(q[i].ext = "lock" \/ (q[i].stem = "lock" /\ q[i].ext = ""))

\* The lease of p is the copy init_profile made in p.
IsCopy(p) == in_use_profile_path[p] = TempDest(Uuid4(p))

\* What C5 asks of a checkout by p that ends in this step: it returns a
\* temporary lease, a path that is not the source nor the path any other
\* checkout returned, holding the source tree without the entries named lock
\* or matching *.lock.
ReturnsFreshCopy(p) ==
    LET lease == Resolve(in_use_profile_path'[p])
    IN  /\ CheckoutReturns(p)
        /\ in_use_profile_path'[p] # EmptyPath
        /\ HasTmpMarker(lease)
        /\ lease # Source
        /\ ~Exists(fs, lease)
        /\ \A q \in Procs \ {p} : Resolve(in_use_profile_path[q]) # lease
        /\ IsDir(fs', lease)
        /\ fs'[lease].tree = {e \in fs[Source].tree : NoLockMarker(e)}
        /\ fs'[Source] = fs[Source]

\* C5 (as stated): for every source path that exists as a directory,
\* checkout returns a temporary lease whose path differs from the source and
\* from the path of every other checkout, and whose content is the source
\* tree without any entry named lock or matching *.lock.
C5_EveryDirectoryYieldsFreshCopy ==
    [][\A p \in Procs :
         (/\ CheckoutEnds(p)
          /\ user_profile_path # EmptyPath
          /\ IsDir(fs, Source))
         => ReturnsFreshCopy(p)
      ]_vars

\* C5 (amended): for every source path that exists as a directory whose tree
\* is copied without error, checkout returns such a temporary lease; when
\* the copy ends in shutil.Error, checkout removes the partial copy and
\* returns the empty path, the filesystem being as before.
C5_TemporaryLeaseIsFreshCopy ==
    [][\A p \in Procs :
         (/\ CheckoutEnds(p)
          /\ user_profile_path # EmptyPath
          /\ IsDir(fs, Source))
         => IF fs[Source].readable
            THEN ReturnsFreshCopy(p)
            ELSE /\ CheckoutReturns(p)
                 /\ in_use_profile_path'[p] = EmptyPath
                 /\ fs' = fs
      ]_vars

\* Two checkouts of the same source are in progress together (the lock of
\* the first expired) and both hold a copy.
C5_Witness ==
    \E p, q \in Procs :
        /\ p # q
        /\ pc[p] = "checked" /\ pc[q] = "checked"
        /\ IsCopy(p) /\ IsCopy(q)
        /\ IsDir(fs, Resolve(in_use_profile_path[p]))
        /\ IsDir(fs, Resolve(in_use_profile_path[q]))
        /\ \E e \in fs[Source].tree : ~NoLockMarker(e)

\* C6: checkout of a source path that does not exist creates that directory
\* and returns a persistent lease, the resolved source path, without making
\* a copy.
C6_MissingSourceIsCreated ==
    [][\A p \in Procs :
         (/\ CheckoutEnds(p)
          /\ user_profile_path # EmptyPath
          /\ ~Exists(fs, Source))
         => /\ CheckoutReturns(p)
            /\ in_use_profile_path'[p] = Source
            /\ fs' = Put(fs, Source, DirNode({}))
      ]_vars

\* Process p's shutdown hook runs in this step.
ShutdownRuns(p) == pc[p] = "up" /\ pc'[p] = "down"

\* C7: release deletes the leased path exactly when the lease is temporary
\* (a copy made by checkout); a persistent lease (the source directory that
\* checkout created) is left on disk unchanged, whatever its path is.
C7_ReleaseDeletesOnlyCopies ==
    [][\A p \in Procs :
         (ShutdownRuns(p) /\ in_use_profile_path[p] # EmptyPath)
         => LET lease == Resolve(in_use_profile_path[p])
            IN  IF IsCopy(p)
                THEN ~Exists(fs', lease)
                ELSE /\ lease = Source
                     /\ Exists(fs, lease) =>
                           Exists(fs', lease) /\ fs'[lease] = fs[lease]
      ]_vars

\* C8: new_page succeeds only on a session that is Ready; in any other state
\* the call fails with an error and is not silently ignored, also through
\* the built-in chanina.new_page libretto.
C8_NewPageOnlyWhenReady ==
    (running # NoCall /\ running.enabled /\ running.func = "chanina_new_page") =>
        IF HandedLive(running) /\ pw[running.proc] = "running"
        THEN running.outcome = "page opened"
        ELSE running.outcome = "Error"

BuiltinTitles == {"chanina.list_libretti", "chanina.new_page"}

\* C9: a registration makes its libretto the one found under its identifier
\* (the last registration wins, duplicates raise nothing); no step removes
\* an identifier or changes the libretto of another one; the built-in
\* libretti are there from construction on.
C9_RegistryLastWriteWins ==
    /\ [](BuiltinTitles \subseteq DOMAIN libretti)
    /\ [][/\ DOMAIN libretti \subseteq DOMAIN libretti'
          /\ registered' # registered =>
                /\ registered'[1] \in DOMAIN libretti'
                /\ libretti'[registered'[1]] =
                       Libretto(registered'[1], registered'[2])
          /\ \A title \in DOMAIN libretti :
                libretti'[title] # libretti[title] =>
                    /\ registered' # registered
                    /\ registered'[1] = title
         ]_vars

\* A user function has replaced a built-in libretto (a second registration
\* under one identifier), and the hooks and a task have run since.
C9_Witness ==
    /\ libretti["chanina.new_page"].func \in UserFuncs
    /\ "job" \in DOMAIN libretti
    /\ pc[TaskProc] = "down"
    /\ teardown[TaskProc] # << >>

\* The temporary directory init_profile makes in process p.
TempOf(p) == Resolve(TempDest(Uuid4(p)))

\* C10: when the lock is not acquired within blocking_timeout the init hook
\* raises the lock error and has constructed nothing: no directory was
\* created or copied, no lease path is recorded, no driver was started and
\* the application holds no session.
C10_LockTimeoutConstructsNothing ==
    /\ [](\A p \in Procs :
            initError[p] = "LockError" =>
                /\ in_use_profile_path[p] = EmptyPath
                /\ worker_session[p] = "None"
                /\ pw[p] = "none"
                /\ browser_context[p] = "none"
                /\ ~Exists(fs, TempOf(p)))
    /\ [][\A p \in Procs :
            (initError[p] # "LockError" /\ initError'[p] = "LockError") =>
                /\ pc[p] = "waiting"
                /\ fs' = fs
         ]_vars

C10_Witness ==
    \E p \in Procs :
        /\ initError[p] = "LockError"
        /\ \E q \in Procs : InWindow(q)

\* The configured profile is a directory whose copy ends in shutil.Error.
CopyFails ==
    /\ user_profile_path # EmptyPath
    /\ IsDir(fs, Source)
    /\ ~fs[Source].readable

FileSource ==
    /\ user_profile_path # EmptyPath
    /\ Exists(fs, Source)
    /\ ~IsDir(fs, Source)

\* C12: when the source path exists and is not a directory, init_profile
\* raises ValueError and leaves the filesystem as it was; the init hook
\* fails, the process no longer holds the lock, and it has no lease, no
\* driver, no context and no session, then or later.
C12_InvalidProfileFailsCleanly ==
    /\ [](FileSource =>
            \A p \in Procs :
                /\ pc[p] # "checked"
                /\ in_use_profile_path[p] = EmptyPath
                /\ worker_session[p] = "None"
                /\ pw[p] = "none"
                /\ browser_context[p] = "none")
    /\ [][\A p \in Procs :
            (FileSource /\ CheckoutEnds(p)) =>
                /\ fs' = fs
                /\ pc'[p] = "up"
                /\ initError'[p] =
                      (IF Owned(p) THEN "ValueError" ELSE "LockNotOwnedError")
                /\ p \notin lockHolder'[Redlock(p)]
         ]_vars

\* A checkout has failed on a file, and the next process is in its window.
C12_Witness ==
    /\ FileSource
    /\ \E p, q \in Procs :
          /\ initError[p] = "ValueError"
          /\ pc[q] = "locked"

\* The configured browser name is none of those _init_context knows.
Unsupported == browser_name \notin {"firefox", "chrome"}

\* Process p's WorkerSession(...) call ends in this step.
ConstructEnds(p) == pc[p] = "checked" /\ pc'[p] # "checked"

\* C13: with a browser name other than "firefox" and "chrome" the
\* construction of the session raises ValueError and the init hook fails; the
\* application never holds a session or an open context, and every task that
\* runs in the process afterwards is handed no session.
C13_UnsupportedBrowserAborts ==
    /\ [](Unsupported =>
            /\ \A p \in Procs :
                  /\ worker_session[p] = "None"
                  /\ browser_context[p] = "none"
                  /\ pc[p] \in {"up", "down"} => initError[p] # ""
            /\ running # NoCall => running.session = "None")
    /\ [][\A p \in Procs :
            (Unsupported /\ ConstructEnds(p)) =>
                initError'[p] =
                    (IF Owned(p) THEN "ValueError" ELSE "LockNotOwnedError")
         ]_vars

\* A task runs in a process whose init hook failed on the browser name.
C13_Witness ==
    /\ Unsupported
    /\ running # NoCall
    /\ running.enabled
    /\ initError[running.proc] = "ValueError"

\* Process p's call of init_profile in this step copies the source directory.
CheckoutCopiesSource(p) ==
    /\ pc[p] = "locked" /\ pc'[p] # "locked"
    /\ user_profile_path # EmptyPath
    /\ IsDir(fs, Source)

\* C14: while the session of a process is live on a lease path, no other
\* process has a live session on that path and no other process's checkout
\* copies from that path.
C14_LeaseExclusive ==
    /\ [](\A p, q \in Procs :
            (p # q /\ Live(p) /\ Live(q)
                /\ in_use_profile_path[p] # EmptyPath
                /\ in_use_profile_path[q] # EmptyPath)
            => Resolve(in_use_profile_path[p]) # Resolve(in_use_profile_path[q]))
    /\ [][\A p, q \in Procs :
            (p # q /\ Live(q) /\ in_use_profile_path[q] # EmptyPath
                /\ CheckoutCopiesSource(p))
            => Source # Resolve(in_use_profile_path[q])
         ]_vars

\* C15: a process has at most one live session. A driver is started and a
\* session assigned only by the init hook's WorkerSession(...) call, and only
\* in a process that has no driver and no session (none live, none closed
\* before); a running driver stops only in the shutdown hook, which closes
\* the context and clears the reference with it; a stopped driver stays
\* stopped, and the shutdown hook of a process that has a session closes it,
\* so that each session is closed exactly once.
C15_OneSessionPerProcess ==
    [][\A p \in Procs :
         /\ ConstructEnds(p) => (pw[p] = "none" /\ worker_session[p] = "None")
         /\ pw'[p] # pw[p] =>
               \/ ConstructEnds(p) /\ pw'[p] = "running"
               \/ /\ ShutdownRuns(p)
                  /\ pw[p] = "running"
                  /\ pw'[p] = "stopped"
                  /\ browser_context'[p] = "closed"
                  /\ worker_session'[p] = "None"
         /\ worker_session'[p] # worker_session[p] =>
               \/ ConstructEnds(p) /\ worker_session'[p] = "session"
               \/ ShutdownRuns(p) /\ pw'[p] = "stopped"
         /\ pw[p] = "stopped" => pw'[p] = "stopped"
         /\ (ShutdownRuns(p) /\ worker_session[p] = "session") =>
               (pw'[p] = "stopped" /\ browser_context'[p] = "closed")
      ]_vars

\* C19: from a live session the shutdown hook runs to its end and raises
\* nothing, also when the leased path is no longer there: the context is
\* closed, the driver stopped, the lease released and the reference cleared.
C19_ShutdownAlwaysCompletes ==
    [][\A p \in Procs :
         (ShutdownRuns(p) /\ Live(p)) =>
             /\ shutdownError'[p] = ""
             /\ browser_context'[p] = "closed"
             /\ pw'[p] = "stopped"
             /\ worker_session'[p] = "None"
      ]_vars

\* C16: the construction of the WorkerSession (start of the driver, launch
\* of the browser context) runs in a process that holds the lock at that
\* time: it acquired the key, and the key was neither released nor expired.
C16_ConstructionUnderLock ==
    [][\A p \in Procs : ConstructEnds(p) => Owned(p)]_vars

\* C17: the lock key follows from the source profile, so that worker
\* processes configured with the same source profile contend for one lock
\* whatever their caller paths are: no two of them are inside the with block
\* together, each owning its lock.
C17_SameProfileSameLock ==
    \A p, q \in Procs :
        (p # q /\ InWindow(p) /\ InWindow(q)) => ~(Owned(p) /\ Owned(q))

\* The positions of step s in the shutdown hook's log of process p.
StepsAt(p, s) == {i \in DOMAIN teardown[p] : teardown[p][i] = s}

\* C18: the shutdown hook closes the browser context, then stops the driver,
\* then releases the profile lease, and clears the session reference after
\* all of them.
C18_ShutdownOrder ==
    \A p \in Procs :
        /\ \A i \in StepsAt(p, "browser_context.close"),
              j \in StepsAt(p, "playwright.stop") : i < j
        /\ \A j \in StepsAt(p, "playwright.stop"),
              k \in StepsAt(p, "remove_profile") : j < k
        /\ \A i \in DOMAIN teardown[p], l \in StepsAt(p, "clear") :
              i # l => i < l

\* C20: with a supported browser name, the context a WorkerSession opens is a
\* persistent one on the leased path when the process has a lease path, and
\* an ephemeral one only when it has none.
C20_PersistentContextWhenLeased ==
    \A p \in Procs :
        (browser_name \in {"firefox", "chrome"}
            /\ browser_context[p] \in {"persistent", "ephemeral"})
        => (browser_context[p] = "persistent"
               <=> in_use_profile_path[p] # EmptyPath)

\* C22: once the init hook of a process has failed, and once its shutdown
\* hook has run, the temporary directory the process made no longer exists
\* and the driver it started no longer runs.
C22_NothingOutlivesTheWorker ==
    \A p \in Procs :
        ((pc[p] = "up" /\ initError[p] # "") \/ pc[p] = "down") =>
            /\ ~Exists(fs, TempOf(p))
            /\ pw[p] # "running"

\* The init hook of p is under way.
InHook(p) == pc[p] \in {"waiting", "locked", "checked"}

\* The init hook of p has ended: it returned with a session built or it
\* raised.
HookEnded(p) ==
    /\ pc[p] \in {"up", "down"}
    /\ initError[p] # "" \/ pw[p] # "none"

\* C21: every process whose init hook has started sees it end, with a
\* session or with an error, unless the process itself dies; none waits for
\* the lock for ever, also when a lock holder has died or when another
\* process keeps its session for ever.
C21_InitHookEnds ==
    \A p \in Procs : InHook(p) ~> (HookEnded(p) \/ pc[p] = "crashed")

\* A process has its session although a process that started earlier died
\* in the with block, and a third one gave up waiting for the lock.
C21_Witness ==
    \E p, q, r \in Procs :
        /\ pc[p] = "crashed"
        /\ p < q
        /\ Live(q)
        /\ initError[r] = "LockError"

====
